---- MODULE Spec2Model ----
(***************************************************************************)
(* Model of src/main.py: the tic-tac-toe Board, the two players            *)
(* (Player reads input lines, CPUPlayer picks a random empty spot) and the *)
(* turn loop of main().                                                    *)
(*                                                                         *)
(* Two specifications share the variables:                                 *)
(*   Spec       a session of main(): shuffle, then the while-loop;         *)
(*   SpecBoard  a client calling the Board's methods with arbitrary        *)
(*              arguments on every board those calls can build.            *)
(***************************************************************************)
EXTENDS Integers, Sequences, FiniteSets, TLC

VARIABLES
    board,            \* Board._board: 3 rows of 3 cells, each " ", "X" or "O"
    shuffled_values,  \* main: <<human_player.value, cpu_player.value>>
    current_player,   \* main: "human" or "cpu"
    pc,               \* session: "AwaitingMove", "Won", "Draw", "Crashed"; harness: "idle", "called"
    bound,            \* Player.move: are the locals row, col bound?
    row,              \* Player.move local
    col,              \* Player.move local
    rejected,         \* Player.move: input lines its loop has rejected in the current call
    parsed,           \* outcome of the last int parse in Player.move: "none", "ok", "ValueError"
    exc,              \* exception that left the last call (or the session): "none" or its name
    last_move,        \* <<player, row, col>> when the step just taken had move() return (row, col), else <<>>
    op,               \* harness: the Board method called last
    args,             \* harness: its arguments
    retval,           \* harness: its return value (<<>> when it raised)
    printed,          \* what is_cell_empty printed in the step just taken
    placements        \* calls of set_cell_value that have returned so far

vars == <<board, shuffled_values, current_player, pc, bound, row, col, rejected, parsed,
          exc, last_move, op, args, retval, printed, placements>>

----------------------------------------------------------------------------
(* Bounds *)

\* integer coordinates offered as input and as arguments: the negative ones
\* (one that Python wraps around, one below the list) and 0..MaxCoord
NegCoords == {-4, -1}
MaxCoord == 3
Coords == NegCoords \cup (0..MaxCoord)
\* longest input line, in tokens
MaxTokens == 3
\* input lines one call of Player.move may reject before the model stops
\* offering it further lines (the loop itself has no limit)
MaxRejected == 1

----------------------------------------------------------------------------
(* Board *)

PLAYERS_VALUES == <<"X", "O">>

Idx == 0..2

\* Board.__post_init__
EmptyBoard == [i \in Idx |-> [j \in Idx |-> " "]]

\* Python list indexing on a list of length 3: -3..2 are valid, negative
\* indices count from the end, anything else raises IndexError.
IndexOK(i) == -3 <= i /\ i <= 2

PyIndex(i) == IF i < 0 THEN i + 3 ELSE i

\* self._board[r][c]
Cell(b, r, c) == b[PyIndex(r)][PyIndex(c)]

\* is_full as if any() were written for the outer all(): one full row suffices
is_full_any_row(b) == \E i \in Idx : \A j \in Idx : b[i][j] # " "

\* is_full that looks at the last row only
is_full_last_row(b) == \A j \in Idx : b[2][j] # " "

\* Board.is_full
is_full(b) == \A i \in Idx : \A j \in Idx : b[i][j] # " "

\* Board.is_cell_empty: "IndexError" when an index is out of the list's range,
\* else the comparison's result (the print does not affect the result).
is_cell_empty_raises(r, c) == ~(IndexOK(r) /\ IndexOK(c))

is_cell_empty(b, r, c) == Cell(b, r, c) = " "

\* line 40: the text is_cell_empty prints when the cell holds a mark
CellTakenMessage == "cell is already taken"

\* is_cell_empty with the print of line 40 outside the if of line 39
is_cell_empty_prints_always(b, r, c) ==
    IF is_cell_empty_raises(r, c) THEN <<>> ELSE <<CellTakenMessage>>

\* Board.is_cell_empty, lines 39-40: what the call prints
is_cell_empty_prints(b, r, c) ==
    IF ~is_cell_empty_raises(r, c) /\ ~is_cell_empty(b, r, c)
    THEN <<CellTakenMessage>>
    ELSE <<>>

\* Board.get_empty_spots: the list comprehension, in its iteration order
RECURSIVE spots_from(_, _)
spots_from(b, k) ==
    IF k = 9 THEN <<>>
    ELSE LET i == k \div 3
             j == k % 3
         IN (IF b[i][j] = " " THEN << <<i, j>> >> ELSE <<>>) \o spots_from(b, k + 1)

\* get_empty_spots with the comparison of line 45 inverted: the occupied spots
RECURSIVE occupied_from(_, _)
occupied_from(b, k) ==
    IF k = 9 THEN <<>>
    ELSE LET i == k \div 3
             j == k % 3
         IN (IF b[i][j] # " " THEN << <<i, j>> >> ELSE <<>>) \o occupied_from(b, k + 1)

get_empty_spots_occupied(b) == occupied_from(b, 0)

\* get_empty_spots with the two loops of line 45 exchanged: column by column
RECURSIVE spots_by_column(_, _)
spots_by_column(b, k) ==
    IF k = 9 THEN <<>>
    ELSE LET i == k % 3
             j == k \div 3
         IN (IF b[i][j] = " " THEN << <<i, j>> >> ELSE <<>>) \o spots_by_column(b, k + 1)

get_empty_spots_by_column(b) == spots_by_column(b, 0)

get_empty_spots(b) == spots_from(b, 0)

\* set_cell_value without lines 62-63: an occupied cell raises nothing
set_cell_value_exc_no_check(b, r, c) ==
    IF is_cell_empty_raises(r, c) THEN "IndexError" ELSE "none"

\* Board.set_cell_value: the exception it raises ("none" when it returns)
set_cell_value_exc(b, r, c) ==
    IF is_cell_empty_raises(r, c) THEN "IndexError"
    ELSE IF ~is_cell_empty(b, r, c) THEN "CellIsNotEmptyError"
    ELSE "none"

\* set_cell_value without the guard of line 62: the cell is overwritten
set_cell_value_board_overwrite(b, r, c, value) ==
    IF is_cell_empty_raises(r, c)
    THEN b
    ELSE [b EXCEPT ![PyIndex(r)][PyIndex(c)] = value]

\* Board.set_cell_value: the board after the call
set_cell_value_board(b, r, c, value) ==
    IF set_cell_value_exc(b, r, c) = "none"
    THEN [b EXCEPT ![PyIndex(r)][PyIndex(c)] = value]
    ELSE b

\* check_winner without the column test of lines 72-73
check_winner_no_columns(b, player_value) ==
    \/ \E i \in Idx : \A j \in Idx : b[i][j] = player_value
    \/ (b[0][0] = player_value /\ b[1][1] = player_value /\ b[2][2] = player_value)
    \/ (b[0][2] = player_value /\ b[1][1] = player_value /\ b[2][0] = player_value)

\* check_winner with the second diagonal's last cell mistyped as [2][2]
check_winner_wrong_diagonal(b, player_value) ==
    \/ \E i \in Idx :
          \/ \A j \in Idx : b[i][j] = player_value
          \/ \A j \in Idx : b[j][i] = player_value
    \/ (b[0][0] = player_value /\ b[1][1] = player_value /\ b[2][2] = player_value)
    \/ (b[0][2] = player_value /\ b[1][1] = player_value /\ b[2][2] = player_value)

\* Board.check_winner
check_winner(b, player_value) ==
    \/ \E i \in Idx :
          \/ \A j \in Idx : b[i][j] = player_value
          \/ \A j \in Idx : b[j][i] = player_value
    \/ (b[0][0] = player_value /\ b[1][1] = player_value /\ b[2][2] = player_value)
    \/ (b[0][2] = player_value /\ b[1][1] = player_value /\ b[2][0] = player_value)

----------------------------------------------------------------------------
(* Players *)

\* BasePlayer.value of each player object
Value(p) == IF p = "human" THEN shuffled_values[1] ELSE shuffled_values[2]

\* the switch of lines 167-169 with its branches swapped: the same player again
Other_same(p) == IF p = "cpu" THEN "cpu" ELSE "human"

\* main, lines 167-169: the player that moves next
Other(p) == IF p = "cpu" THEN "human" ELSE "cpu"

\* get_shuffled_players / random.shuffle: the possible orders of PLAYERS_VALUES
Shuffles == { <<PLAYERS_VALUES[1], PLAYERS_VALUES[2]>>, <<PLAYERS_VALUES[2], PLAYERS_VALUES[1]>> }

\* A token of an input line: an integer literal or something int() rejects
IntToken(n) == [isint |-> TRUE, val |-> n]
WordToken == [isint |-> FALSE, val |-> 0]
IntTokens == { IntToken(n) : n \in Coords }

\* input(message).split(): the lines of two integer literals, the lines of
\* 0..MaxTokens literals, and the lines of one or two tokens with a word
InputLines ==
    [1..2 -> IntTokens] \cup
    { [k \in 1..n |-> IntToken(0)] : n \in 0..MaxTokens } \cup
    { <<WordToken>>, <<IntToken(0), WordToken>>, <<WordToken, IntToken(0)>> }

\* row, col = map(int, line): succeeds iff exactly two tokens, both integers;
\* every other case raises ValueError before either name is assigned
ParseOK(line) == Len(line) = 2 /\ line[1].isint /\ line[2].isint

----------------------------------------------------------------------------
(* main(): one session *)

\* line 147 comparing with "O": the holder of O moves first
first_player_holds_o(sv) == IF sv[1] = "O" THEN "human" ELSE "cpu"

\* line 147 without its condition: the human always moves first
first_player_human(sv) == "human"

\* main, line 147: the player that holds "X" moves first
first_player(sv) == IF sv[1] = "X" THEN "human" ELSE "cpu"

\* lines 159-165 with the two checks in the other order
main_next_pc_full_first(b, value) ==
    IF is_full(b) THEN "Draw"
    ELSE IF check_winner(b, value) THEN "Won"
    ELSE "AwaitingMove"

\* lines 159-169 without either break: the loop always goes on
main_next_pc_never_ends(b, value) == "AwaitingMove"

\* lines 159-169 without the is_full test of lines 163-165
main_next_pc_no_draw(b, value) ==
    IF check_winner(b, value) THEN "Won"
    ELSE "AwaitingMove"

\* main, lines 159-169: where the loop goes after a placement by the player
\* holding value
main_next_pc(b, value) ==
    IF check_winner(b, value) THEN "Won"
    ELSE IF is_full(b) THEN "Draw"
    ELSE "AwaitingMove"

Init ==
    /\ shuffled_values \in Shuffles
    /\ current_player = first_player(shuffled_values)
    /\ board = EmptyBoard
    /\ pc = "AwaitingMove"
    /\ bound = FALSE
    /\ row = 0
    /\ col = 0
    /\ rejected = 0
    /\ parsed = "none"
    /\ exc = "none"
    /\ last_move = <<>>
    /\ op = "none"
    /\ args = <<>>
    /\ retval = <<>>
    /\ printed = <<>>
    /\ placements = 0

\* main, lines 156-169: the rest of the loop body once current_player.move
\* has returned (r, c). An exception of set_cell_value is not caught.
main_after_move(r, c) ==
    LET value == Value(current_player)
        e     == set_cell_value_exc(board, r, c)
        b     == set_cell_value_board(board, r, c, value)
    IN  /\ board' = b
        /\ exc' = e
        /\ printed' = is_cell_empty_prints(board, r, c)
        /\ placements' = (IF e = "none" THEN placements + 1 ELSE placements)
        /\ IF e # "none"
           THEN /\ pc' = "Crashed"
                /\ current_player' = current_player
           ELSE /\ pc' = main_next_pc(b, value)
                /\ current_player' = IF main_next_pc(b, value) = "AwaitingMove"
                                     THEN Other(current_player)
                                     ELSE current_player

\* Player.move, one pass of its while-loop on one input line; when the loop
\* returns, the rest of main's loop body runs. The locals row, col live in
\* the call's frame: they are gone once the call returns or raises.
PlayerMove(line) ==
    /\ pc = "AwaitingMove"
    /\ current_player = "human"
    /\ rejected < MaxRejected
    /\ LET ok == ParseOK(line)
           r  == IF ok THEN line[1].val ELSE row
           c  == IF ok THEN line[2].val ELSE col
       IN  /\ parsed' = (IF ok THEN "ok" ELSE "ValueError")
           /\ IF ~(ok \/ bound)
              THEN \* line 115 reads row before any assignment
                   /\ pc' = "Crashed"
                   /\ exc' = "UnboundLocalError"
                   /\ bound' = FALSE /\ row' = 0 /\ col' = 0
                   /\ rejected' = 0
                   /\ last_move' = <<>>
                   /\ printed' = <<>>
                   /\ UNCHANGED <<board, current_player, placements>>
              ELSE IF is_cell_empty_raises(r, c)
              THEN \* line 38 indexes outside the list, outside the try
                   /\ pc' = "Crashed"
                   /\ exc' = "IndexError"
                   /\ bound' = FALSE /\ row' = 0 /\ col' = 0
                   /\ rejected' = 0
                   /\ last_move' = <<>>
                   /\ printed' = <<>>
                   /\ UNCHANGED <<board, current_player, placements>>
              ELSE IF ~is_cell_empty(board, r, c)
              THEN \* line 116: continue
                   /\ bound' = TRUE /\ row' = r /\ col' = c
                   /\ rejected' = rejected + 1
                   /\ last_move' = <<>>
                   /\ printed' = is_cell_empty_prints(board, r, c)
                   /\ UNCHANGED <<board, current_player, pc, exc, placements>>
              ELSE \* line 117: return row, col
                   /\ last_move' = <<"human", r, c>>
                   /\ bound' = FALSE /\ row' = 0 /\ col' = 0
                   /\ rejected' = 0
                   /\ main_after_move(r, c)
    /\ UNCHANGED <<shuffled_values, op, args, retval>>

\* the loop body run again after a break of line 161 or 165
CPUPlayerMove_after_break ==
    /\ pc \in {"AwaitingMove", "Won", "Draw"}
    /\ current_player = "cpu"
    /\ LET empty_spots == get_empty_spots(board)
       IN  IF Len(empty_spots) = 0
           THEN /\ pc' = "Crashed"
                /\ exc' = "IndexError"
                /\ last_move' = <<>>
                /\ printed' = <<>>
                /\ UNCHANGED <<board, current_player, placements>>
           ELSE \* random.choice(empty_spots)
                \E spot \in { empty_spots[k] : k \in 1..Len(empty_spots) } :
                /\ last_move' = <<"cpu", spot[1], spot[2]>>
                /\ main_after_move(spot[1], spot[2])
    /\ parsed' = "none"
    /\ UNCHANGED <<shuffled_values, bound, row, col, rejected, op, args, retval>>

\* CPUPlayer.move, then the rest of main's loop body
CPUPlayerMove ==
    /\ pc = "AwaitingMove"
    /\ current_player = "cpu"
    /\ LET empty_spots == get_empty_spots(board)
       IN  IF Len(empty_spots) = 0
           THEN \* random.choice of an empty list
                /\ pc' = "Crashed"
                /\ exc' = "IndexError"
                /\ last_move' = <<>>
                /\ printed' = <<>>
                /\ UNCHANGED <<board, current_player, placements>>
           ELSE \* random.choice(empty_spots)
                \E spot \in { empty_spots[k] : k \in 1..Len(empty_spots) } :
                /\ last_move' = <<"cpu", spot[1], spot[2]>>
                /\ main_after_move(spot[1], spot[2])
    /\ parsed' = "none"
    /\ UNCHANGED <<shuffled_values, bound, row, col, rejected, op, args, retval>>

Next ==
    \/ \E line \in InputLines : PlayerMove(line)
    \/ CPUPlayerMove

Spec == Init /\ [][Next]_vars

\* A session that does not stall: main is one synchronous loop, so the CPU's
\* choice is made as soon as it is asked for, and a line is read whenever
\* Player.move awaits one (as long as lines are offered).
FairSpec == Init /\ [][Next]_vars /\ WF_vars(Next)

----------------------------------------------------------------------------
(* A client of Board: any method, any arguments, one call at a time *)

InitBoard ==
    /\ shuffled_values = PLAYERS_VALUES
    /\ current_player = first_player(shuffled_values)
    /\ board = EmptyBoard
    /\ pc = "idle"
    /\ bound = FALSE
    /\ row = 0
    /\ col = 0
    /\ rejected = 0
    /\ parsed = "none"
    /\ exc = "none"
    /\ last_move = <<>>
    /\ op = "none"
    /\ args = <<>>
    /\ retval = <<>>
    /\ printed = <<>>
    /\ placements = 0

session_vars == <<shuffled_values, current_player, bound, row, col, rejected, parsed, last_move>>

\* board.set_cell_value(r, c, value)
SetCellValue(r, c, value) ==
    /\ pc = "idle"
    /\ pc' = "called"
    /\ op' = "set_cell_value"
    /\ args' = <<r, c, value>>
    /\ exc' = set_cell_value_exc(board, r, c)
    /\ board' = set_cell_value_board(board, r, c, value)
    /\ retval' = (IF set_cell_value_exc(board, r, c) = "none" THEN <<r, c>> ELSE <<>>)
    /\ printed' = is_cell_empty_prints(board, r, c)
    /\ placements' = (IF set_cell_value_exc(board, r, c) = "none"
                      THEN placements + 1 ELSE placements)
    /\ UNCHANGED session_vars

\* board.check_winner(player_value)
CheckWinner(player_value) ==
    /\ pc = "idle"
    /\ pc' = "called"
    /\ op' = "check_winner"
    /\ args' = <<player_value>>
    /\ exc' = "none"
    /\ retval' = <<check_winner(board, player_value)>>
    /\ printed' = <<>>
    /\ UNCHANGED <<board, placements>>
    /\ UNCHANGED session_vars

\* board.is_full()
IsFull ==
    /\ pc = "idle"
    /\ pc' = "called"
    /\ op' = "is_full"
    /\ args' = <<>>
    /\ exc' = "none"
    /\ retval' = <<is_full(board)>>
    /\ printed' = <<>>
    /\ UNCHANGED <<board, placements>>
    /\ UNCHANGED session_vars

\* board.is_cell_empty(r, c)
IsCellEmpty(r, c) ==
    /\ pc = "idle"
    /\ pc' = "called"
    /\ op' = "is_cell_empty"
    /\ args' = <<r, c>>
    /\ exc' = (IF is_cell_empty_raises(r, c) THEN "IndexError" ELSE "none")
    /\ retval' = (IF is_cell_empty_raises(r, c) THEN <<>> ELSE <<is_cell_empty(board, r, c)>>)
    /\ printed' = is_cell_empty_prints(board, r, c)
    /\ UNCHANGED <<board, placements>>
    /\ UNCHANGED session_vars

\* board.get_empty_spots()
GetEmptySpots ==
    /\ pc = "idle"
    /\ pc' = "called"
    /\ op' = "get_empty_spots"
    /\ args' = <<>>
    /\ exc' = "none"
    /\ retval' = <<get_empty_spots(board)>>
    /\ printed' = <<>>
    /\ UNCHANGED <<board, placements>>
    /\ UNCHANGED session_vars

\* the client takes the result; the board is ready for the next call
Return ==
    /\ pc = "called"
    /\ pc' = "idle"
    /\ op' = "none"
    /\ args' = <<>>
    /\ exc' = "none"
    /\ retval' = <<>>
    /\ printed' = <<>>
    /\ UNCHANGED <<board, placements>>
    /\ UNCHANGED session_vars

NextBoard ==
    \/ \E r \in Coords : \E c \in Coords :
          \E value \in {"X", "O"} : SetCellValue(r, c, value)
    \/ \E player_value \in {"X", "O"} : CheckWinner(player_value)
    \/ IsFull
    \/ \E r \in Coords : \E c \in Coords : IsCellEmpty(r, c)
    \/ GetEmptySpots
    \/ Return

SpecBoard == InitBoard /\ [][NextBoard]_vars

----------------------------------------------------------------------------
(* Vocabulary of the properties, independent of the code's own checks *)

Marks == {"X", "O"}

\* the 8 lines of the grid, as sets of (row, col) pairs
Lines ==
    { { <<i, j>> : j \in Idx } : i \in Idx } \cup
    { { <<i, j>> : i \in Idx } : j \in Idx } \cup
    { { <<i, i>> : i \in Idx }, { <<i, 2 - i>> : i \in Idx } }

HasLine(b, mark) == \E L \in Lines : \A p \in L : b[p[1]][p[2]] = mark

CellsOf(b, v) == { p \in Idx \X Idx : b[p[1]][p[2]] = v }

NoEmptyCell(b) == CellsOf(b, " ") = {}

\* the cells whose value differs between two boards
Changed(b1, b2) == { p \in Idx \X Idx : b1[p[1]][p[2]] # b2[p[1]][p[2]] }

InGrid(r, c) == r \in Idx /\ c \in Idx

----------------------------------------------------------------------------
(* C1: set_cell_value on a cell of the grid that already holds a mark raises
   CellIsNotEmptyError, whatever mark is requested, and no cell changes. *)
C1_OccupiedCellRejected ==
    [][ ( /\ pc = "idle"
          /\ op' = "set_cell_value"
          /\ InGrid(args'[1], args'[2])
          /\ board[args'[1]][args'[2]] # " " )
        => ( exc' = "CellIsNotEmptyError" /\ board' = board /\ retval' = <<>> ) ]_vars

\* a rejected placement of the mark the cell does not hold
C1_Witness ==
    /\ pc = "called"
    /\ op = "set_cell_value"
    /\ exc = "CellIsNotEmptyError"
    /\ InGrid(args[1], args[2])
    /\ board[args[1]][args[2]] \in Marks
    /\ board[args[1]][args[2]] # args[3]

(* C2: check_winner(mark) returns true exactly when one of the 8 lines holds
   mark in all three cells; it returns false when fewer than 3 cells hold
   mark, so on the empty board for both marks. *)
C2_WinnerIffLine ==
    (pc = "called" /\ op = "check_winner") =>
        /\ retval[1] = HasLine(board, args[1])
        /\ (Cardinality(CellsOf(board, args[1])) < 3 => retval[1] = FALSE)

\* a win by the anti-diagonal alone
C2_Witness ==
    /\ pc = "called"
    /\ op = "check_winner"
    /\ retval[1] = TRUE
    /\ CellsOf(board, args[1]) = { <<0, 2>>, <<1, 1>>, <<2, 0>> }

(* C3: when a placement by the active player leaves a complete line of that
   player's mark, the session is Won with that player still current, also
   when the placement filled the ninth cell; the board X X X / O O _ / _ _ _
   is a win of X. *)
C3_ScenarioA ==
    ( /\ CellsOf(board, "X") = { <<0, 0>>, <<0, 1>>, <<0, 2>> }
      /\ CellsOf(board, "O") = { <<1, 0>>, <<1, 1>> } )
    => ( pc = "Won" /\ Value(current_player) = "X" )

C3_WinAfterPlacement ==
    /\ []C3_ScenarioA
    /\ [][ ( /\ pc = "AwaitingMove"
             /\ board' # board
             /\ HasLine(board', Value(current_player)) )
           => ( pc' = "Won" /\ current_player' = current_player ) ]_vars

\* a win on the ninth placement
C3_Witness ==
    /\ pc = "Won"
    /\ NoEmptyCell(board)
    /\ HasLine(board, Value(current_player))

(* C4: the session becomes Draw exactly on a placement that leaves no empty
   cell and no complete line of the mover's mark; a full board without a
   complete line is a Draw. *)
C4_FullNoLineIsDraw ==
    ( NoEmptyCell(board) /\ ~HasLine(board, "X") /\ ~HasLine(board, "O") )
    => pc = "Draw"

C4_DrawIffFullNoLine ==
    /\ []C4_FullNoLineIsDraw
    /\ [][ (pc' = "Draw")
           <=> ( /\ pc = "AwaitingMove"
                 /\ board' # board
                 /\ NoEmptyCell(board')
                 /\ ~HasLine(board', Value(current_player)) ) ]_vars

C4_Witness ==
    /\ pc = "Draw"
    /\ Cardinality(CellsOf(board, "X")) = 5
    /\ Cardinality(CellsOf(board, "O")) = 4

(* C5: every placement writes the mark of the player that was current into
   one empty cell, and after a placement that neither wins nor fills the
   board the other player is current. *)
C5_Alternation ==
    [][ board' # board =>
        /\ pc = "AwaitingMove"
        /\ LET changed == Changed(board, board')
           IN  /\ Cardinality(changed) = 1
               /\ \A p \in changed :
                     /\ board[p[1]][p[2]] = " "
                     /\ board'[p[1]][p[2]] = Value(current_player)
        /\ last_move' # <<>>
        /\ last_move'[1] = current_player
        /\ (pc' = "AwaitingMove" => current_player' # current_player)
        /\ (pc' # "AwaitingMove" => current_player' = current_player) ]_vars

\* both players have placed and the loop goes on
C5_Witness ==
    /\ pc = "AwaitingMove"
    /\ Cardinality(CellsOf(board, "X")) = 2
    /\ Cardinality(CellsOf(board, "O")) = 2
    /\ last_move # <<>>

(* C6: for both outcomes of the shuffle the two players hold the two
   distinct marks, no player's mark changes, and the session starts by
   awaiting the move of the player that holds X. *)
C6_MarksAndFirstPlayer ==
    /\ ( pc = "AwaitingMove" /\ board = EmptyBoard /\ Value(current_player) = "X" )
    /\ []( Value("human") \in Marks /\ Value("cpu") \in Marks /\ Value("human") # Value("cpu") )
    /\ [][ shuffled_values' = shuffled_values ]_vars

\* the shuffle gave X to the CPU, which has moved first
C6_Witness ==
    /\ Value("cpu") = "X"
    /\ Value("human") = "O"
    /\ Cardinality(CellsOf(board, "X")) = 1
    /\ CellsOf(board, "O") = {}
    /\ current_player = "human"

(* C7: a move returned by Player.move is a pair of integers in 0..2 (and the
   cell they name, empty until then, now holds the human's mark). *)
C7_HumanMoveInGrid ==
    (last_move # <<>> /\ last_move[1] = "human") =>
        /\ InGrid(last_move[2], last_move[3])
        /\ board[last_move[2]][last_move[3]] = Value("human")

(* C8: an input line that Player.move does not return as a move (malformed,
   or integers outside 0..2) is rejected inside its loop: the session still
   awaits the human's move, no exception has left the loop and no cell has
   changed. *)
C8_RejectedInputStaysInLoop ==
    [][ ( parsed' # "none" /\ last_move' = <<>> )
        => ( /\ pc' = "AwaitingMove"
             /\ current_player' = "human"
             /\ exc' = "none"
             /\ board' = board ) ]_vars

(* C9: if set_cell_value raises CellIsNotEmptyError for the move the current
   player returned, the session stays in AwaitingMove of that player.
   No reachable state of the session has this exception: see C9_NeverRaised. *)
C9_InvalidMoveKeepsAwaiting ==
    exc = "CellIsNotEmptyError" => pc = "AwaitingMove"

\* in a session set_cell_value never raises CellIsNotEmptyError
C9_NeverRaised == exc # "CellIsNotEmptyError"

(* C10: set_cell_value with a row or a column outside 0..2 raises
   CellIsNotEmptyError and no cell changes. *)
C10_OutOfRangeRejected ==
    [][ ( /\ pc = "idle"
          /\ op' = "set_cell_value"
          /\ ~InGrid(args'[1], args'[2]) )
        => ( exc' = "CellIsNotEmptyError" /\ board' = board ) ]_vars

(* C11: after successful placements on a new board, is_full returns true
   exactly when 9 placements have been made, and exactly when no cell is
   empty. *)
C11_FullIffNinePlacements ==
    (pc = "called" /\ op = "is_full") =>
        /\ retval[1] = (placements = 9)
        /\ retval[1] = NoEmptyCell(board)

C11_Witness ==
    /\ pc = "called"
    /\ op = "is_full"
    /\ retval[1] = TRUE
    /\ placements = 9

(* C12: under any sequence of Board calls, successful or failed, the grid
   stays 3x3 with cells in {" ", "X", "O"}, and a cell changes only from
   empty to a mark: a cell that holds a mark keeps it. *)
C12_GridShape ==
    /\ DOMAIN board = Idx
    /\ \A i \in Idx : DOMAIN board[i] = Idx
    /\ \A i \in Idx : \A j \in Idx : board[i][j] \in {" "} \cup Marks

C12_CellsWrittenOnce ==
    /\ []C12_GridShape
    /\ [][ \A p \in Changed(board, board') :
              /\ board[p[1]][p[2]] = " "
              /\ board'[p[1]][p[2]] \in Marks ]_vars

\* a failed placement on a board without an empty cell
C12_Witness ==
    /\ pc = "called"
    /\ op = "set_cell_value"
    /\ exc = "CellIsNotEmptyError"
    /\ NoEmptyCell(board)

(* C13: the move CPUPlayer.move returns is an element of get_empty_spots(),
   a cell of the grid that is empty on the board it was given; the call
   changes no cell (the only cell that changes in the step is the one main
   then places at the returned coordinate). *)
C13_CPUMoveIsEmptySpot ==
    [][ ( last_move' # <<>> /\ last_move'[1] = "cpu" )
        => ( /\ InGrid(last_move'[2], last_move'[3])
             /\ <<last_move'[2], last_move'[3]>> \in CellsOf(board, " ")
             /\ Changed(board, board') = { <<last_move'[2], last_move'[3]>> } ) ]_vars

\* the CPU has chosen among the spots left on a partly filled board
C13_Witness ==
    /\ last_move # <<>>
    /\ last_move[1] = "cpu"
    /\ placements = 4
    /\ board[last_move[2]][last_move[3]] = Value("cpu")

(* C14: whenever a move is requested, the board has an empty cell; the CPU's
   random.choice is never given an empty list. *)
C14_MoveRequestedOnlyWithEmptyCell ==
    /\ (pc = "AwaitingMove" => CellsOf(board, " ") # {})
    /\ ~(pc = "Crashed" /\ current_player = "cpu")

\* the CPU is asked for the ninth move
C14_Witness ==
    /\ pc = "AwaitingMove"
    /\ current_player = "cpu"
    /\ Cardinality(CellsOf(board, " ")) = 1

(* C15: Won and Draw are terminal: from such a state no move is requested,
   no cell changes and the current player is not switched. *)
C15_TerminalStatesStay ==
    [][ (pc = "Won" \/ pc = "Draw") => UNCHANGED vars ]_vars

\* a win that leaves empty cells, with the CPU as the winner
C15_Witness ==
    /\ pc = "Won"
    /\ current_player = "cpu"
    /\ CellsOf(board, " ") # {}

(* C16: get_empty_spots returns the empty cells of the grid, each once, in
   row-major order, and changes no cell. *)
RowMajor(p) == 3 * p[1] + p[2]

C16_SpotsOfBoard ==
    (pc = "called" /\ op = "get_empty_spots") =>
        LET spots == retval[1]
        IN  /\ { spots[k] : k \in 1..Len(spots) } = CellsOf(board, " ")
            /\ Len(spots) = Cardinality(CellsOf(board, " "))
            /\ \A k \in 1..(Len(spots) - 1) : RowMajor(spots[k]) < RowMajor(spots[k + 1])

C16_EmptySpotsRowMajor ==
    /\ []C16_SpotsOfBoard
    /\ [][ op' = "get_empty_spots" => board' = board ]_vars

C16_Witness ==
    /\ pc = "called"
    /\ op = "get_empty_spots"
    /\ Len(retval[1]) = 5
    /\ board[0][0] # " "
    /\ board[2][2] = " "

(* C17 as stated: is_cell_empty(row, col) on a cell of the grid returns true
   iff the cell is empty, and prints nothing. *)
C17_SilentQuery ==
    (pc = "called" /\ op = "is_cell_empty" /\ InGrid(args[1], args[2])) =>
        /\ retval[1] = (board[args[1]][args[2]] = " ")
        /\ printed = <<>>

(* C17 amended: is_cell_empty(row, col) on a cell of the grid returns true
   iff the cell is empty and changes no cell; it prints nothing when the
   cell is empty and prints the cell-is-taken message when it holds a mark. *)
C17_Returned ==
    (pc = "called" /\ op = "is_cell_empty" /\ InGrid(args[1], args[2])) =>
        /\ exc = "none"
        /\ retval[1] = (board[args[1]][args[2]] = " ")
        /\ (retval[1] => printed = <<>>)
        /\ (~retval[1] => printed = <<CellTakenMessage>>)

C17_QueryPrintsWhenTaken ==
    /\ []C17_Returned
    /\ [][ op' = "is_cell_empty" => board' = board ]_vars

C17_Witness ==
    /\ pc = "called"
    /\ op = "is_cell_empty"
    /\ InGrid(args[1], args[2])
    /\ retval[1] = FALSE
    /\ printed = <<CellTakenMessage>>

(* C18: while a move is awaited neither mark has a complete line; no state
   has lines of both marks; Won is declared with a line of the winner's mark
   and Draw only on a full board without any line. *)
C18_OneWinnerAtMost ==
    /\ (pc \in {"AwaitingMove", "Crashed"} => ~HasLine(board, "X") /\ ~HasLine(board, "O"))
    /\ ~(HasLine(board, "X") /\ HasLine(board, "O"))
    /\ (pc = "Won" => HasLine(board, Value(current_player)))
    /\ (pc = "Draw" => NoEmptyCell(board) /\ ~HasLine(board, "X") /\ ~HasLine(board, "O"))

\* O wins on the eighth placement
C18_Witness ==
    /\ pc = "Won"
    /\ Value(current_player) = "O"
    /\ HasLine(board, "O")
    /\ Cardinality(CellsOf(board, "O")) = 4

(* C19: a session in which every move request returns a move reaches Won or
   Draw, and it does so after at least 5 and at most 9 placements. The
   sessions left out are those in which a request of the human's move never
   returns: an exception left Player.move, or every line offered was
   rejected. *)
Ended == pc \in {"Won", "Draw"}

HumanMoveNeverReturns ==
    /\ current_player = "human"
    /\ \/ pc = "Crashed"
       \/ (pc = "AwaitingMove" /\ rejected >= MaxRejected)

Diff == Cardinality(CellsOf(board, "X")) - Cardinality(CellsOf(board, "O"))

C20_DiffTellsWhoAwaits ==
    pc # "Crashed" =>
        /\ Diff \in {0, 1}
        /\ (Diff = 0 <=> (pc = "AwaitingMove" /\ Value(current_player) = "X"))
        /\ (Diff = 1 <=> (pc = "AwaitingMove" /\ Value(current_player) = "O"))
        /\ (placements = 1 => Diff = 1)
        /\ (pc = "Draw" => Cardinality(CellsOf(board, "X")) = 5
                           /\ Cardinality(CellsOf(board, "O")) = 4)

(* C20 amended: the difference is 0 or 1 in every state; while a move is
   awaited it is 0 exactly when the current player holds X and 1 exactly
   when it holds O; once the session is Won it is 1 if X won and 0 if O won;
   the first mark placed is X; a Draw board holds 5 X and 4 O. *)
C20_DiffWhileAwaiting ==
    /\ Diff \in {0, 1}
    /\ (pc \in {"AwaitingMove", "Crashed"} =>
           /\ (Diff = 0 <=> Value(current_player) = "X")
           /\ (Diff = 1 <=> Value(current_player) = "O"))
    /\ (pc = "Won" => Diff = (IF Value(current_player) = "X" THEN 1 ELSE 0))
    /\ (placements = 1 => Diff = 1)
    /\ (pc = "Draw" => Cardinality(CellsOf(board, "X")) = 5
                       /\ Cardinality(CellsOf(board, "O")) = 4)

\* X has won on the seventh placement
C20_Witness ==
    /\ pc = "Won"
    /\ Value(current_player) = "X"
    /\ Diff = 1
    /\ placements = 7

====
